---- MODULE Spec2Model ----
(***************************************************************************)
(* A model of heat/core/operations.py: the dispatchers __binary_op and     *)
(* __reduce_op, run SPMD by every rank of a communicator.  Each rank       *)
(* executes the dispatcher on its own handles; the blocking collectives    *)
(* (Bcast, Allreduce) are the only points where ranks synchronise, so a    *)
(* rank's run is cut into steps exactly at the collectives.                *)
(***************************************************************************)
EXTENDS Integers, Sequences, FiniteSets, TLC

VARIABLES
    size,   \* number of participants of the communicator
    args,   \* the call: which dispatcher, and the arguments as passed
    t1,     \* per rank: first operand handle of __binary_op (mutated in place)
    t2,     \* per rank: second operand handle of __binary_op
    x,      \* per rank: input handle of __reduce_op
    out,    \* per rank: the `out` handle of __reduce_op (overwritten in place)
    part,   \* per rank: the local `partial` buffer of __reduce_op
    sent,   \* per rank: the buffer contributed to the Allreduce
    pc,     \* per rank: position in the dispatcher
    log,    \* per rank: the collectives issued so far, in order
    res,    \* per rank: the returned handle
    err     \* per rank: the exception the call ended with

vars == <<size, args, t1, t2, x, out, part, sent, pc, log, res, err>>

----------------------------------------------------------------------------
(* Bounds of the model.                                                    *)

MaxSize == 2
MaxExtent == 2
MaxSeed == 1

(* `None` as a split axis.                                                 *)
NoSplit == -1

Ranks == 0 .. (size - 1)
Extents == 1 .. MaxExtent
Shapes == {<<a>> : a \in Extents} \cup {<<a, b>> : a \in Extents, b \in Extents}
DTypes == {"bool", "int32", "float32"}

----------------------------------------------------------------------------
(* Collaborators: element types, shapes, shards.                           *)

TypeRank(t) == CASE t = "bool" -> 0 [] t = "int32" -> 1 [] t = "float32" -> 2

promote_types(a, b) == IF TypeRank(a) >= TypeRank(b) THEN a ELSE b

canonical_heat_type(t) == t

Max2(a, b) == IF a >= b THEN a ELSE b

(* A shape right-aligned to n dimensions, padded with leading 1s.          *)
Pad(s, n) == [i \in 1 .. n |-> IF i <= n - Len(s) THEN 1 ELSE s[i - (n - Len(s))]]

Broadcastable(a, b) ==
    LET n == Max2(Len(a), Len(b))
    IN \A i \in 1 .. n :
          \/ Pad(a, n)[i] = Pad(b, n)[i]
          \/ Pad(a, n)[i] = 1
          \/ Pad(b, n)[i] = 1

broadcast_shape(a, b) ==
    LET n == Max2(Len(a), Len(b))
    IN [i \in 1 .. n |-> Max2(Pad(a, n)[i], Pad(b, n)[i])]

(* The shape the element-wise operation produces on two local buffers: an  *)
(* extent of 1 stretches to the other extent (also to an extent of 0).     *)
OpShape(a, b) ==
    LET n == Max2(Len(a), Len(b))
    IN [i \in 1 .. n |-> IF Pad(a, n)[i] = 1 THEN Pad(b, n)[i] ELSE Pad(a, n)[i]]

RECURSIVE SumTo(_, _)
SumTo(f, n) == IF n < 0 THEN 0 ELSE f[n] + SumTo(f, n - 1)

(* The ways to cut an extent e into one shard per rank (shards may be      *)
(* empty): the local extents sum to e, and the shards are laid out in rank *)
(* order with the larger ones first, so that the root of a broadcast holds *)
(* data whenever any rank does.                                            *)
Dists(e, n) ==
    {d \in [0 .. (n - 1) -> 0 .. e] :
        /\ SumTo(d, n - 1) = e
        /\ \A q \in 0 .. (n - 2) : d[q] >= d[q + 1]}

is_distributed == size > 1

----------------------------------------------------------------------------
(* Operands as passed, and the per-rank handles made of them.              *)

ArrayArgs(n) ==
    {[kind |-> "array", shape |-> s, split |-> NoSplit, dtype |-> d,
      dist |-> [q \in 0 .. (n - 1) |-> 0]] : s \in Shapes, d \in DTypes}
    \cup
    UNION {UNION {{[kind |-> "array", shape |-> s, split |-> k, dtype |-> d, dist |-> ds]
                      : d \in DTypes, ds \in Dists(s[k + 1], n)}
                  : k \in 0 .. (Len(s) - 1)}
           : s \in Shapes}

ScalarArgs ==
    {[kind |-> "scalar", shape |-> <<1>>, split |-> NoSplit, dtype |-> d,
      dist |-> <<>>] : d \in DTypes}

(* A scalar that is not numeric (a string), and a value that is neither a  *)
(* scalar nor a handle (a list).                                           *)
BadArgs ==
    {[kind |-> k, shape |-> <<1>>, split |-> NoSplit, dtype |-> "bool",
      dist |-> <<>>] : k \in {"badscalar", "other"}}

NoArg == [kind |-> "none", shape |-> <<1>>, split |-> NoSplit, dtype |-> "bool", dist |-> <<>>]

lshapeOf(o, r) ==
    IF o.kind = "array" /\ o.split # NoSplit
    THEN [o.shape EXCEPT ![o.split + 1] = o.dist[r]]
    ELSE o.shape

Handle(o, r) ==
    [kind |-> o.kind, shape |-> o.shape, split |-> o.split, dtype |-> o.dtype,
     lshape |-> lshapeOf(o, r), src |-> "shard"]

NoBuf == [shape |-> <<>>, dtype |-> "none", invoked |-> FALSE,
          a |-> [shape |-> <<>>, src |-> "none"], b |-> [shape |-> <<>>, src |-> "none"]]

NoRes == [buf |-> NoBuf, shape |-> <<>>, dtype |-> "none", split |-> NoSplit]

----------------------------------------------------------------------------
(* __binary_op                                                             *)

(* factories.array([t]) of a scalar: a one-element unsplit handle.         *)
array_of_scalar(h) == [h EXCEPT !.shape = <<1>>, !.split = NoSplit, !.lshape = <<1>>]

astype(h, d) == [h EXCEPT !.dtype = d]

(* Lines 38-85, 102-103, 108-109: classification of the operands; the      *)
(* exception raised, or the output shape and split.                        *)
BinNormalize(h1, h2) ==
    IF h1.kind \in {"scalar", "badscalar"}
    THEN IF h1.kind = "badscalar"
         THEN [err |-> "TypeError", shape |-> <<>>, split |-> NoSplit]
         ELSE IF h2.kind = "scalar"
         THEN [err |-> "none", shape |-> <<1>>, split |-> NoSplit]
         ELSE IF h2.kind = "badscalar"
         THEN [err |-> "TypeError", shape |-> <<>>, split |-> NoSplit]
         ELSE IF h2.kind = "array"
         THEN [err |-> "none", shape |-> h2.shape, split |-> h2.split]
         ELSE [err |-> "TypeError", shape |-> <<>>, split |-> NoSplit]
    ELSE IF h1.kind = "array"
    THEN IF h2.kind = "scalar"
         THEN [err |-> "none", shape |-> h1.shape, split |-> h1.split]
         ELSE IF h2.kind = "badscalar"
         THEN [err |-> "TypeError", shape |-> <<>>, split |-> NoSplit]
         ELSE IF h2.kind = "array"
         THEN IF h2.split = NoSplit \/ h2.split = h1.split
              THEN IF Broadcastable(h1.shape, h2.shape)
                   THEN [err |-> "none", shape |-> broadcast_shape(h1.shape, h2.shape),
                         split |-> h1.split]
                   ELSE [err |-> "ShapeError", shape |-> <<>>, split |-> NoSplit]
              ELSE [err |-> "LayoutError", shape |-> <<>>, split |-> NoSplit]
         ELSE [err |-> "TypeError", shape |-> <<>>, split |-> NoSplit]
    ELSE [err |-> "NotImplementedError", shape |-> <<>>, split |-> NoSplit]

(* Mutants of BcastNeeded: only the ranks that hold data take part in the  *)
(* broadcast; every split operand is broadcast, whatever its extent.       *)
BcastNeeded_OnlyRanksWithData(h, r) ==
    /\ h.split # NoSplit
    /\ h.shape[h.split + 1] = 1
    /\ is_distributed
    /\ h.lshape[h.split + 1] > 0

BcastNeeded_AnyExtent(h, r) ==
    /\ h.split # NoSplit
    /\ is_distributed

(* Lines 89 and 96: the operand is split along an axis of global extent 1  *)
(* and the communicator has more than one participant.                     *)
BcastNeeded(h, r) ==
    /\ h.split # NoSplit
    /\ h.shape[h.split + 1] = 1
    /\ is_distributed

(* Lines 91-92 and 98-99: every rank but the root replaces its buffer by   *)
(* zeros of the global shape before entering the broadcast.                *)
BcastPrepare(h, r) ==
    IF r > 0 THEN [h EXCEPT !.lshape = h.shape, !.src = "zeros"] ELSE h

(* The operation on two local buffers cast to the promoted type; torch     *)
(* raises when the local shapes do not broadcast.                          *)
operation(c1, c2, p) ==
    IF Broadcastable(c1.lshape, c2.lshape)
    THEN [err |-> "none",
          buf |-> [shape |-> OpShape(c1.lshape, c2.lshape), dtype |-> p, invoked |-> TRUE,
                   a |-> [shape |-> c1.lshape, src |-> c1.src],
                   b |-> [shape |-> c2.lshape, src |-> c2.src]]]
    ELSE [err |-> "OpError", buf |-> NoBuf]

(* buffer.type(p) returned without invoking the operation.                 *)
cast_only(c, p) ==
    [err |-> "none",
     buf |-> [shape |-> c.lshape, dtype |-> p, invoked |-> FALSE,
              a |-> [shape |-> c.lshape, src |-> c.src],
              b |-> [shape |-> <<>>, src |-> "none"]]]

(* Lines 111-123: the empty-shard short-circuit and the local operation.   *)
BinCompute(c1, c2) ==
    LET p == promote_types(c1.dtype, c2.dtype)
    IN IF c1.split # NoSplit
       THEN IF c1.lshape[c1.split + 1] = 0
            THEN cast_only(c1, p)
            ELSE operation(c1, c2, p)
       ELSE IF c1.split # NoSplit
       THEN IF c2.lshape[c2.split + 1] = 0
            THEN cast_only(c2, p)
            ELSE operation(c1, c2, p)
       ELSE operation(c1, c2, p)

(* Lines 61-62 and 105-106: the scalar first operand is cast to the second *)
(* operand's type; otherwise the second operand is cast to the first's.    *)
BinCast1(h1, h2) ==
    IF h1.kind = "scalar" /\ h1.dtype # h2.dtype THEN astype(h1, h2.dtype) ELSE h1

BinCast2(h1, h2) ==
    IF h1.kind = "array" /\ h2.dtype # h1.dtype THEN astype(h2, h1.dtype) ELSE h2

(* Lines 105-125: the casts, the local computation and the result handle.  *)
BinLocal(h1, h2) ==
    LET c1 == BinCast1(h1, h2)
        c2 == BinCast2(h1, h2)
        n == BinNormalize(h1, h2)
        c == BinCompute(c1, c2)
    IN [err |-> c.err,
        res |-> IF c.err = "none"
                THEN [buf |-> c.buf, shape |-> n.shape,
                      dtype |-> canonical_heat_type(c1.dtype), split |-> n.split]
                ELSE NoRes]

BothArrays(h1, h2) == h1.kind = "array" /\ h2.kind = "array"

(* The rest of __binary_op from line 88 (stage 1), line 95 (stage 2) or    *)
(* line 105 (stage 3), up to the next collective or the end of the call.   *)
BinFrom(stage, h1, h2, r) ==
    IF stage <= 1 /\ BothArrays(h1, h2) /\ BcastNeeded(h1, r)
    THEN [pc |-> "bcast_t1", t1 |-> BcastPrepare(h1, r), t2 |-> h2,
          log |-> <<[coll |-> "Bcast", what |-> "t1"]>>, res |-> NoRes, err |-> "none"]
    ELSE IF stage <= 2 /\ BothArrays(h1, h2) /\ BcastNeeded(h2, r)
    THEN [pc |-> "bcast_t2", t1 |-> h1, t2 |-> BcastPrepare(h2, r),
          log |-> <<[coll |-> "Bcast", what |-> "t2"]>>, res |-> NoRes, err |-> "none"]
    ELSE LET l == BinLocal(h1, h2)
         IN [pc |-> IF l.err = "none" THEN "done" ELSE "error",
             t1 |-> h1, t2 |-> h2, log |-> <<>>, res |-> l.res, err |-> l.err]

BinApply(r, s) ==
    /\ t1' = [t1 EXCEPT ![r] = s.t1]
    /\ t2' = [t2 EXCEPT ![r] = s.t2]
    /\ pc' = [pc EXCEPT ![r] = s.pc]
    /\ log' = [log EXCEPT ![r] = log[r] \o s.log]
    /\ res' = [res EXCEPT ![r] = s.res]
    /\ err' = [err EXCEPT ![r] = s.err]
    /\ UNCHANGED <<size, args, x, out, part, sent>>

(* A blocking collective returns on rank r once every rank has entered the *)
(* same collective: the k-th collective of r matches the k-th of each rank.*)
Matched(r) ==
    LET k == Len(log[r])
    IN \A q \in Ranks : Len(log[q]) >= k /\ log[q][k] = log[r][k]

(* Lines 38-93: rank r enters __binary_op and runs to its first collective *)
(* or to the end of the call.                                              *)
BinStart(r) ==
    /\ args.op = "binary"
    /\ pc[r] = "start"
    /\ LET h1 == IF t1[r].kind = "scalar" THEN array_of_scalar(t1[r]) ELSE t1[r]
           h2 == IF t2[r].kind = "scalar" THEN array_of_scalar(t2[r]) ELSE t2[r]
           n == BinNormalize(h1, h2)
       IN IF n.err # "none"
          THEN /\ pc' = [pc EXCEPT ![r] = "error"]
               /\ err' = [err EXCEPT ![r] = n.err]
               /\ UNCHANGED <<size, args, t1, t2, x, out, part, sent, log, res>>
          ELSE BinApply(r, BinFrom(1, h1, h2, r))

(* Line 93 returns: the broadcast of the first operand has completed.      *)
BcastT1Return(r) ==
    /\ pc[r] = "bcast_t1"
    /\ Matched(r)
    /\ BinApply(r, BinFrom(2, [t1[r] EXCEPT !.src = "bcast"], t2[r], r))

(* Line 100 returns: the broadcast of the second operand has completed.    *)
BcastT2Return(r) ==
    /\ pc[r] = "bcast_t2"
    /\ Matched(r)
    /\ BinApply(r, BinFrom(3, t1[r], [t2[r] EXCEPT !.src = "bcast"], r))

----------------------------------------------------------------------------
(* __reduce_op                                                             *)

(* The index tuples of a buffer of the given shape.                        *)
IdxSet(shape) ==
    {i \in [1 .. Len(shape) -> 0 .. MaxExtent] : \A k \in 1 .. Len(shape) : i[k] < shape[k]}

(* Row-major position of an index in an array of the given shape.          *)
RECURSIVE Lin(_, _, _)
Lin(idx, shape, k) == IF k = 0 THEN 0 ELSE Lin(idx, shape, k - 1) * shape[k] + idx[k]

(* The element of the global array at idx.                                 *)
GlobalVal(o, idx) == args.seed + Lin(idx, o.shape, Len(o.shape))

(* First global position, along the split axis, of rank r's shard.         *)
Offset(o, r) == SumTo(o.dist, r - 1)

LocalVals(o, r) ==
    [i \in IdxSet(lshapeOf(o, r)) |->
        GlobalVal(o, IF o.kind = "array" /\ o.split # NoSplit
                     THEN [i EXCEPT ![o.split + 1] = @ + Offset(o, r)]
                     ELSE i)]

(* The combine of two values: MPI.SUM, or MPI.LAND on truth values.        *)
Combine2(rop, a, b) ==
    IF rop = "SUM" THEN a + b ELSE IF a # 0 /\ b # 0 THEN 1 ELSE 0

Unit(rop) == IF rop = "SUM" THEN 0 ELSE 1

RECURSIVE FoldTo(_, _, _)
FoldTo(f, n, rop) == IF n < 0 THEN Unit(rop) ELSE Combine2(rop, f[n], FoldTo(f, n - 1, rop))

(* partial_op(buffer, dim=dim, keepdim=True): torch.sum, or torch.all.     *)
partial_op(buf, dim, rop) ==
    LET ns == [buf.shape EXCEPT ![dim + 1] = 1]
    IN [shape |-> ns,
        vals |-> [i \in IdxSet(ns) |->
                    FoldTo([k \in 0 .. (buf.shape[dim + 1] - 1) |->
                               buf.vals[[i EXCEPT ![dim + 1] = k]]],
                           buf.shape[dim + 1] - 1, rop)]]

RECURSIVE partial_over(_, _, _)
partial_over(buf, axes, rop) ==
    IF axes = <<>> THEN buf
    ELSE partial_over(partial_op(buf, Head(axes), rop), Tail(axes), rop)

(* partial_op(buffer).reshape(-1): the reduction over all dimensions, as a *)
(* one-element buffer.                                                     *)
partial_all(buf, rop) ==
    LET b == partial_over(buf, [k \in 1 .. Len(buf.shape) |-> k - 1], rop)
    IN [shape |-> <<1>>,
        vals |-> [i \in IdxSet(<<1>>) |-> b.vals[[k \in 1 .. Len(buf.shape) |-> 0]]]]

Range(s) == {s[k] : k \in 1 .. Len(s)}

(* stride_tricks.sanitize_axis: None, an integer or a tuple of integers;   *)
(* negative axes count from the end; out of range or duplicated axes fail. *)
sanitize_axis(shape, axis) ==
    LET n == Len(shape)
        norm == [k \in 1 .. Len(axis.v) |-> IF axis.v[k] < 0 THEN axis.v[k] + n ELSE axis.v[k]]
    IN IF axis.kind = "none" THEN [err |-> "none", kind |-> "none", v |-> <<>>]
       ELSE IF \E k \in 1 .. Len(axis.v) : axis.v[k] < -n \/ axis.v[k] >= n
       THEN [err |-> "AxisError", kind |-> axis.kind, v |-> <<>>]
       ELSE IF Cardinality(Range(norm)) # Len(norm)
       THEN [err |-> "AxisError", kind |-> axis.kind, v |-> <<>>]
       ELSE [err |-> "none", kind |-> axis.kind, v |-> norm]

(* Line 210: the keep-dim shape, assigned anew for each dim of the loop.   *)
RECURSIVE shape_keepdim(_, _, _)
shape_keepdim(gshape, axes, cur) ==
    IF axes = <<>> THEN cur
    ELSE shape_keepdim(gshape, Tail(axes), [gshape EXCEPT ![Head(axes) + 1] = 1])

(* Line 211: the extents of the dimensions not reduced.                    *)
RECURSIVE shape_losedim(_, _, _)
shape_losedim(gshape, axes, k) ==
    IF k > Len(gshape) THEN <<>>
    ELSE (IF (k - 1) \in Range(axes) THEN <<>> ELSE <<gshape[k]>>)
         \o shape_losedim(gshape, axes, k + 1)

(* Line 213.                                                               *)
output_shape(gshape, ax, keepdim) ==
    IF ax.kind = "none" THEN <<1>>
    ELSE IF keepdim THEN shape_keepdim(gshape, ax.v, gshape)
    ELSE shape_losedim(gshape, ax.v, 1)

(* Mutant of SplitReduced: the case `axis is None` is forgotten.            *)
SplitReduced_AxisNoneForgotten(h, ax) ==
    h.split # NoSplit /\ ax.kind # "none" /\ h.split \in Range(ax.v)

(* Line 220: the tensor is distributed across a reduction axis.            *)
SplitReduced(h, ax) ==
    h.split # NoSplit /\ (ax.kind = "none" \/ h.split \in Range(ax.v))

(* Lines 225-245: the element type of the result; `out` overwritten and    *)
(* returned, or a fresh handle.  partial[0] fails on a buffer whose first  *)
(* extent is 0.                                                            *)
RedFinish(h, o, p, ax) ==
    LET boolean == args.rop \in {"LAND", "LOR", "BAND", "BOR"}
        split == IF SplitReduced(h, ax) THEN NoSplit ELSE h.split
        ttype == IF boolean THEN "bool" ELSE h.dtype
    IN IF ~boolean /\ p.shape[1] = 0
       THEN [pc |-> "error", err |-> "IndexError", res |-> NoRes, out |-> o]
       ELSE IF o.kind # "none"
       THEN [pc |-> "done", err |-> "none",
             res |-> [buf |-> p, shape |-> o.shape,
                      dtype |-> canonical_heat_type(ttype), split |-> split],
             out |-> [o EXCEPT !.lshape = p.shape, !.src = "partial",
                               !.dtype = canonical_heat_type(ttype), !.split = split]]
       ELSE [pc |-> "done", err |-> "none",
             res |-> [buf |-> p,
                      shape |-> output_shape(h.shape, ax, args.keepdim),
                      dtype |-> canonical_heat_type(ttype), split |-> split],
             out |-> o]

RedApply(r, p, f) ==
    /\ part' = [part EXCEPT ![r] = p]
    /\ pc' = [pc EXCEPT ![r] = f.pc]
    /\ err' = [err EXCEPT ![r] = f.err]
    /\ res' = [res EXCEPT ![r] = f.res]
    /\ out' = [out EXCEPT ![r] = f.out]

RedFail(r, e) ==
    /\ pc' = [pc EXCEPT ![r] = "error"]
    /\ err' = [err EXCEPT ![r] = e]
    /\ UNCHANGED <<size, args, t1, t2, x, out, part, sent, log, res>>

(* Lines 189-223: rank r enters __reduce_op and runs to the all-reduce or  *)
(* to the end of the call.                                                 *)
RedStart(r) ==
    /\ args.op = "reduce"
    /\ pc[r] = "start"
    /\ LET h == x[r]
           o == out[r]
           ax == sanitize_axis(h.shape, args.axis)
           p == IF ax.kind = "none"
                THEN partial_all([shape |-> h.lshape, vals |-> h.vals], args.rop)
                ELSE partial_over([shape |-> h.lshape, vals |-> h.vals], ax.v, args.rop)
       IN IF h.kind # "array" THEN RedFail(r, "TypeError")
          ELSE IF o.kind \notin {"none", "array"} THEN RedFail(r, "TypeError")
          ELSE IF ax.err # "none" THEN RedFail(r, ax.err)
          ELSE IF o.kind # "none" /\ o.shape # output_shape(h.shape, ax, args.keepdim)
          THEN RedFail(r, "ValueError")
          ELSE IF SplitReduced(h, ax) /\ is_distributed
          THEN /\ part' = [part EXCEPT ![r] = p]
               /\ sent' = [sent EXCEPT ![r] = p]
               /\ log' = [log EXCEPT ![r] = Append(log[r], [coll |-> "Allreduce", what |-> args.rop])]
               /\ pc' = [pc EXCEPT ![r] = "allreduce"]
               /\ UNCHANGED <<size, args, t1, t2, x, out, res, err>>
          ELSE /\ RedApply(r, p, RedFinish(h, o, p, ax))
               /\ UNCHANGED <<size, args, t1, t2, x, sent, log>>

(* Allreduce(MPI.IN_PLACE, partial, reduction_op): every rank's buffer     *)
(* becomes the combine of all ranks' contributions.                        *)
Allreduce(r) ==
    [shape |-> sent[r].shape,
     vals |-> [i \in IdxSet(sent[r].shape) |->
                 FoldTo([q \in Ranks |-> sent[q].vals[i]], size - 1, args.rop)]]

(* Line 223 returns: the all-reduce has completed on rank r.               *)
AllreduceReturn(r) ==
    /\ pc[r] = "allreduce"
    /\ Matched(r)
    /\ RedApply(r, Allreduce(r),
                RedFinish(x[r], out[r], Allreduce(r), sanitize_axis(x[r].shape, args.axis)))
    /\ UNCHANGED <<size, args, t1, t2, x, sent, log>>

----------------------------------------------------------------------------
(* The calls.                                                              *)

AxisInts == {[kind |-> "int", v |-> <<a>>] : a \in -2 .. 2}

AxisTuples ==
    {[kind |-> "tuple", v |-> <<a>>] : a \in -1 .. 1}
    \cup {[kind |-> "tuple", v |-> <<a, b>>] : a \in 0 .. 1, b \in -1 .. 1}

AxisArgs == {[kind |-> "none", v |-> <<>>]} \cup AxisInts \cup AxisTuples

(* Shapes an `out` buffer is given for an input of shape s: s itself, s    *)
(* with one extent set to 1 or dropped, one element, and no dimension.     *)
OutShapes(s) ==
    {<<>>, <<1>>, s}
    \cup {[s EXCEPT ![k] = 1] : k \in 1 .. Len(s)}
    \cup {<<s[k]>> : k \in 1 .. Len(s)}

OutArgs(s) ==
    {NoArg, [NoArg EXCEPT !.kind = "other"]}
    \cup {[kind |-> "array", shape |-> os, split |-> NoSplit, dtype |-> "float32",
           dist |-> <<>>] : os \in OutShapes(s)}

(* The inputs of __reduce_op drawn for n participants.                     *)
ReduceInputs(n) ==
    {b \in ArrayArgs(n) : b.dtype = "float32"} \cup {[NoArg EXCEPT !.kind = "other"]}

XHandle(o, r) ==
    [kind |-> o.kind, shape |-> o.shape, split |-> o.split, dtype |-> o.dtype,
     lshape |-> lshapeOf(o, r), src |-> "shard", vals |-> LocalVals(o, r)]

(* The operands of __binary_op drawn for n participants.                   *)
BinaryOperands(n) == ArrayArgs(n) \cup ScalarArgs \cup BadArgs

InitRanks ==
    /\ part = [r \in Ranks |-> NoBuf]
    /\ sent = [r \in Ranks |-> NoBuf]
    /\ pc = [r \in Ranks |-> "start"]
    /\ log = [r \in Ranks |-> <<>>]
    /\ res = [r \in Ranks |-> NoRes]
    /\ err = [r \in Ranks |-> "none"]

InitBinary ==
    /\ size \in 1 .. MaxSize
    /\ \E a \in BinaryOperands(size), b \in BinaryOperands(size) :
          args = [op |-> "binary", t1 |-> a, t2 |-> b]
    /\ t1 = [r \in Ranks |-> Handle(args.t1, r)]
    /\ t2 = [r \in Ranks |-> Handle(args.t2, r)]
    /\ x = [r \in Ranks |-> Handle(NoArg, r)]
    /\ out = [r \in Ranks |-> Handle(NoArg, r)]
    /\ InitRanks

InitReduce ==
    /\ size \in 1 .. MaxSize
    /\ \E a \in ReduceInputs(size), ax \in AxisArgs, kd \in BOOLEAN,
          rop \in {"SUM", "LAND"}, sd \in 0 .. MaxSeed :
          \E o \in OutArgs(a.shape) :
             args = [op |-> "reduce", x |-> a, axis |-> ax, keepdim |-> kd, out |-> o,
                     rop |-> rop, seed |-> sd]
    /\ t1 = [r \in Ranks |-> Handle(NoArg, r)]
    /\ t2 = [r \in Ranks |-> Handle(NoArg, r)]
    /\ x = [r \in Ranks |-> XHandle(args.x, r)]
    /\ out = [r \in Ranks |-> Handle(args.out, r)]
    /\ InitRanks

Init == InitBinary \/ InitReduce

NextBinary ==
    \/ \E r \in Ranks : BinStart(r)
    \/ \E r \in Ranks : BcastT1Return(r)
    \/ \E r \in Ranks : BcastT2Return(r)

NextReduce ==
    \/ \E r \in Ranks : RedStart(r)
    \/ \E r \in Ranks : AllreduceReturn(r)

Next == NextBinary \/ NextReduce

(* Every rank of one communicator runs one call of either dispatcher.      *)
Spec == Init /\ [][Next]_vars

(* The calls of __binary_op alone, and of __reduce_op alone.               *)
SpecBinary == InitBinary /\ [][NextBinary]_vars

SpecReduce == InitReduce /\ [][NextReduce]_vars

----------------------------------------------------------------------------
(* Vocabulary of the properties.                                           *)

IsBinary == args.op = "binary"

IsReduce == args.op = "reduce"

Terminated(r) == pc[r] \in {"done", "error"}

AllTerminated == \A r \in Ranks : Terminated(r)

AllDone == \A r \in Ranks : pc[r] = "done"

(* __binary_op called with two array handles.                              *)
ArrayCall == IsBinary /\ args.t1.kind = "array" /\ args.t2.kind = "array"

SplitsDiffer ==
    /\ args.t1.split # NoSplit
    /\ args.t2.split # NoSplit
    /\ args.t1.split # args.t2.split

EmptyShard(h) == h.split # NoSplit /\ h.lshape[h.split + 1] = 0

Shard(o, r) == [shape |-> lshapeOf(o, r), src |-> "shard"]

IsPrefix(a, b) == Len(a) <= Len(b) /\ \A k \in 1 .. Len(a) : a[k] = b[k]

----------------------------------------------------------------------------
(* C1: for two array handles with broadcast-compatible shapes, the call    *)
(* ends with the incompatible-layout error if and only if both operands    *)
(* are split and their split axes differ.                                  *)
C1_LayoutErrorIffSplitsDiffer ==
    (ArrayCall /\ Broadcastable(args.t1.shape, args.t2.shape)) =>
        \A r \in Ranks : Terminated(r) => ((err[r] = "LayoutError") <=> SplitsDiffer)

----------------------------------------------------------------------------
(* A rank can step: it is at the start of its call, or in a collective    *)
(* that every rank has entered.                                            *)
CanStep(r) ==
    \/ pc[r] = "start"
    \/ pc[r] \in {"bcast_t1", "bcast_t2", "allreduce"} /\ Matched(r)

(* The sequences of collectives a call may have issued.                    *)
CollectiveOrder ==
    IF IsBinary
    THEN {<<>>,
          <<[coll |-> "Bcast", what |-> "t1"]>>,
          <<[coll |-> "Bcast", what |-> "t2"]>>,
          <<[coll |-> "Bcast", what |-> "t1"], [coll |-> "Bcast", what |-> "t2"]>>}
    ELSE {<<>>, <<[coll |-> "Allreduce", what |-> args.rop]>>}

(* C2: with the same call on every rank, the ranks issue the same sequence *)
(* of collectives, in the order Bcast of the first operand, Bcast of the   *)
(* second operand (or one Allreduce); a rank that has ended its call has   *)
(* issued every collective any other rank issues, and no rank is left      *)
(* blocked in a collective: until every rank has ended, some rank is at    *)
(* the start of its call or in a collective every rank has entered.        *)
C2_SameCollectivesNoRankBlocks ==
    /\ \A r \in Ranks : log[r] \in CollectiveOrder
    /\ \A r \in Ranks, q \in Ranks : IsPrefix(log[r], log[q]) \/ IsPrefix(log[q], log[r])
    /\ \A r \in Ranks : Terminated(r) => \A q \in Ranks : IsPrefix(log[q], log[r])
    /\ (AllTerminated \/ \E r \in Ranks : CanStep(r))

(* Two ranks, one of them holding an empty shard, have both issued the two *)
(* broadcasts and ended their calls.                                       *)
C2_Witness ==
    /\ size > 1
    /\ ArrayCall
    /\ AllTerminated
    /\ \A r \in Ranks : Len(log[r]) = 2
    /\ \E r \in Ranks : lshapeOf(args.t1, r)[args.t1.split + 1] = 0

----------------------------------------------------------------------------
(* The sum of the elements of the global array at the index set S.        *)
RECURSIVE SumOver(_, _)
SumOver(o, S) ==
    IF S = {} THEN 0
    ELSE LET j == CHOOSE j \in S : TRUE
         IN GlobalVal(o, j) + SumOver(o, S \ {j})

(* The global array summed over the axes ax, keeping the dimensions.       *)
GlobalSum(o, ax) ==
    IF ax.kind = "none"
    THEN [i \in IdxSet(<<1>>) |-> SumOver(o, IdxSet(o.shape))]
    ELSE LET ks == [k \in 1 .. Len(o.shape) |->
                       IF (k - 1) \in Range(ax.v) THEN 1 ELSE o.shape[k]]
         IN [i \in IdxSet(ks) |->
                SumOver(o, {j \in IdxSet(o.shape) :
                               \A k \in 1 .. Len(o.shape) :
                                   (k - 1) \in Range(ax.v) \/ j[k] = i[k]})]

(* reduce_op, with valid axes, on a split array over several participants. *)
SplitReduceCall ==
    /\ IsReduce
    /\ args.x.kind = "array"
    /\ args.x.split # NoSplit
    /\ size > 1
    /\ sanitize_axis(args.x.shape, args.axis).err = "none"

(* C3: reduce_op on an array split along s, more than one participant: if  *)
(* the reduction axes contain s (or axis is None) each rank issues exactly *)
(* one all-reduce with the combine operation, the returned handle is       *)
(* unsplit and, for a sum, holds the sum over the global array; otherwise  *)
(* no all-reduce is issued.                                                *)
C3_OneAllreduceOverSplitAxis ==
    SplitReduceCall =>
        LET ax == sanitize_axis(args.x.shape, args.axis)
        IN IF ax.kind = "none" \/ args.x.split \in Range(ax.v)
           THEN \A r \in Ranks :
                   /\ log[r] \in {<<>>, <<[coll |-> "Allreduce", what |-> args.rop]>>}
                   /\ pc[r] = "done" =>
                        /\ Len(log[r]) = 1
                        /\ res[r].split = NoSplit
                        /\ args.rop = "SUM" => res[r].buf.vals = GlobalSum(args.x, ax)
           ELSE \A r \in Ranks : log[r] = <<>>

(* A sum over the split axis of a two-dimensional array has returned on    *)
(* every rank, one rank holding more than one row and one holding none.    *)
C3_Witness ==
    /\ SplitReduceCall
    /\ AllDone
    /\ args.rop = "SUM"
    /\ Len(args.x.shape) = 2
    /\ args.x.split = 0
    /\ args.axis = [kind |-> "int", v |-> <<0>>]
    /\ args.x.dist[0] > 1
    /\ \E r \in Ranks : args.x.dist[r] = 0
    /\ \A r \in Ranks : Len(log[r]) = 1 /\ res[r].buf.vals = GlobalSum(args.x, args.axis)

----------------------------------------------------------------------------
(* C4: any error a call ends with is raised before the rank has issued a   *)
(* collective.                                                             *)
C4_ErrorsBeforeCollectives ==
    \A r \in Ranks : pc[r] = "error" => log[r] = <<>>

----------------------------------------------------------------------------
(* C5: the operation runs on buffers of type promote_types(a, b) of the    *)
(* operands' original types, and the returned handle has that type.        *)
C5_ResultTypeIsPromoted ==
    IsBinary =>
        \A r \in Ranks :
            pc[r] = "done" =>
                /\ res[r].dtype = promote_types(args.t1.dtype, args.t2.dtype)
                /\ res[r].buf.dtype = promote_types(args.t1.dtype, args.t2.dtype)

----------------------------------------------------------------------------
(* C6: on a rank where a split operand (first or second) has an empty      *)
(* shard the operation is not invoked and the result is that operand's     *)
(* buffer cast; the operation is invoked only where no shard is empty.     *)
C6_NoOpOnEmptyShard ==
    IsBinary =>
        \A r \in Ranks :
            pc[r] = "done" =>
                /\ EmptyShard(t1[r]) =>
                      /\ ~res[r].buf.invoked
                      /\ res[r].buf.a = [shape |-> t1[r].lshape, src |-> t1[r].src]
                /\ (~EmptyShard(t1[r]) /\ EmptyShard(t2[r])) =>
                      /\ ~res[r].buf.invoked
                      /\ res[r].buf.a = [shape |-> t2[r].lshape, src |-> t2[r].src]
                /\ res[r].buf.invoked => (~EmptyShard(t1[r]) /\ ~EmptyShard(t2[r]))

----------------------------------------------------------------------------
(* Two array operands, both split along axis 0.                            *)
BothSplit0 == ArrayCall /\ args.t1.split = 0 /\ args.t2.split = 0

(* The result buffer is the operation applied to rank r's two shards.      *)
OpOfShards(r) ==
    /\ res[r].buf.invoked
    /\ res[r].buf.a = Shard(args.t1, r)
    /\ res[r].buf.b = Shard(args.t2, r)

(* The result buffer is the first operand's shard, cast.                   *)
CastOfFirstShard(r) ==
    /\ ~res[r].buf.invoked
    /\ res[r].buf.a = Shard(args.t1, r)

(* C7 as stated: for any global shapes and any number of participants, no  *)
(* rank issues a collective and each rank's result equals the operation    *)
(* applied to its two shards (an empty result of the shape the operation   *)
(* would give counts as equal).                                            *)
C7_Original ==
    BothSplit0 =>
        \A r \in Ranks :
            /\ log[r] = <<>>
            /\ pc[r] = "done" =>
                  \/ OpOfShards(r)
                  \/ /\ CastOfFirstShard(r)
                     /\ Broadcastable(lshapeOf(args.t1, r), lshapeOf(args.t2, r))
                     /\ res[r].buf.shape = OpShape(lshapeOf(args.t1, r), lshapeOf(args.t2, r))

(* C7 amended: when the communicator has one participant or neither        *)
(* operand has global extent 1 along axis 0, no rank issues a collective;  *)
(* a rank that returns holds the operation applied to its two shards if    *)
(* its shard of the first operand is not empty, and that empty shard cast  *)
(* to the promoted type otherwise.                                         *)
C7_NoCollectiveUnlessExtentOne ==
    (BothSplit0 /\ (size = 1 \/ (args.t1.shape[1] # 1 /\ args.t2.shape[1] # 1))) =>
        \A r \in Ranks :
            /\ log[r] = <<>>
            /\ pc[r] = "done" =>
                  IF lshapeOf(args.t1, r)[1] # 0 THEN OpOfShards(r) ELSE CastOfFirstShard(r)

(* Both operands split along axis 0 over two ranks, extents above 1: both  *)
(* ranks have returned, one from the operation and one from the cast.      *)
C7_Witness ==
    /\ BothSplit0
    /\ size > 1
    /\ args.t1.shape[1] # 1
    /\ args.t2.shape[1] # 1
    /\ AllDone
    /\ \A r \in Ranks : log[r] = <<>>
    /\ \E r \in Ranks : OpOfShards(r)
    /\ \E r \in Ranks : CastOfFirstShard(r)

----------------------------------------------------------------------------
(* The global shape g with extent 1 at the axes A; g without the axes A.   *)
ExpectedKeep(g, A) == [k \in 1 .. Len(g) |-> IF (k - 1) \in A THEN 1 ELSE g[k]]

RECURSIVE ExpectedLose(_, _)
ExpectedLose(g, A) ==
    IF g = <<>> THEN <<>>
    ELSE ExpectedLose(SubSeq(g, 1, Len(g) - 1), A)
         \o (IF (Len(g) - 1) \in A THEN <<>> ELSE <<g[Len(g)]>>)

(* C8: the output shape of reduce_op over the axis set A is, with keepdim, *)
(* the global shape with extent 1 at every axis of A, and without keepdim  *)
(* the global shape with every axis of A removed; with keepdim it has as   *)
(* many dimensions as the locally reduced buffer.                          *)
C8_OutputShape ==
    (IsReduce /\ args.axis.kind # "none") =>
        \A r \in Ranks :
            pc[r] = "done" =>
                LET A == Range(sanitize_axis(args.x.shape, args.axis).v)
                IN IF args.keepdim
                   THEN /\ res[r].shape = ExpectedKeep(args.x.shape, A)
                        /\ Len(res[r].shape) = Len(res[r].buf.shape)
                   ELSE res[r].shape = ExpectedLose(args.x.shape, A)

----------------------------------------------------------------------------
(* The index, in the result's shape, of the dimension the input is split   *)
(* along.                                                                  *)
ShiftedSplit ==
    LET ax == sanitize_axis(args.x.shape, args.axis)
    IN IF args.keepdim \/ ax.kind = "none" THEN args.x.split
       ELSE args.x.split - Cardinality({d \in Range(ax.v) : d < args.x.split})

(* C9: the split axis of the handle reduce_op returns is unsplit or an     *)
(* index into the result's global shape that denotes the dimension the     *)
(* input was split along (shifted by the dimensions removed before it).    *)
C9_ResultSplitInRange ==
    IsReduce =>
        \A r \in Ranks :
            pc[r] = "done" =>
                \/ res[r].split = NoSplit
                \/ /\ res[r].split >= 0
                   /\ res[r].split < Len(res[r].shape)
                   /\ res[r].split = ShiftedSplit

----------------------------------------------------------------------------
(* The shard invariant of the data model.                                  *)
ShardInvariant(shape, split, lshapes) ==
    IF split = NoSplit
    THEN \A r \in Ranks : lshapes[r] = shape
    ELSE SumTo([r \in Ranks |-> lshapes[r][split + 1]], size - 1) = shape[split + 1]

(* C10: after binary_op on two array handles has returned on all ranks,    *)
(* the operands and the result satisfy the shard invariant: the local      *)
(* extents along the split axis sum to the global extent, and an unsplit   *)
(* handle's local shape is its global shape.                               *)
C10_ShardInvariantAfterBinaryOp ==
    (ArrayCall /\ AllDone) =>
        /\ ShardInvariant(args.t1.shape, args.t1.split, [r \in Ranks |-> t1[r].lshape])
        /\ ShardInvariant(args.t2.shape, args.t2.split, [r \in Ranks |-> t2[r].lshape])
        /\ ShardInvariant(res[0].shape, res[0].split, [r \in Ranks |-> res[r].buf.shape])

====
